---- MODULE Spec2Model ----
(***************************************************************************)
(* Model of Data/Copernicus_download_multiple_points_Toolbox.ipynb: the    *)
(* notebook kernel with its global names, the two download cells (single   *)
(* dates, timeseries) and the sort_dimension helper, over gridded datasets *)
(* held as labelled arrays.  Coordinates, timestamps and field values are  *)
(* integers; positions are 1-based (position p here is offset p-1 in the   *)
(* notebook).                                                              *)
(***************************************************************************)
EXTENDS Integers, Sequences, FiniteSets, TLC

\* Longest latitude axis of the datasets drawn by InitNorm; the longitude axes
\* are shorter by one.
MaxAxis == 3
\* Longest list_datasetID / output_names drawn by Init.
MaxDatasets == 2
\* Most rows of dataframe_coordinates drawn by Init.
MaxQueries == 2
\* Most runs of the input cells (read csv, download parameters) after Init.
MaxReruns == 1

VARIABLES
    catalog,                \* what the remote catalogue serves: id -> axes and variables
    list_datasetID,         \* download parameter (global)
    output_names,           \* download parameter (global)
    variables,              \* download parameter (global)
    dataframe_coordinates,  \* the input table (global)
    cell,                   \* the cell being executed: "none", "instant", "interval"
    pc,                     \* position inside that cell
    k,                      \* position of the zip(list_datasetID, output_names) iterator
    r,                      \* position of the row iterator of the timeseries cell
    dataset_id,             \* kernel global dataset_id (<<>> while unbound, else <<id>>)
    dataset,                \* kernel global dataset
    dataframe_final,        \* kernel global dataframe_final
    files,                  \* the output directory: file name -> table written
    error,                  \* the exception that ended the last cell run, or "none"
    calls,                  \* bookkeeping: the calls made by the last cell run, in order
    reruns                  \* bookkeeping: how often the input cells were run again

vars == <<catalog, list_datasetID, output_names, variables, dataframe_coordinates,
          cell, pc, k, r, dataset_id, dataset, dataframe_final, files, error, calls,
          reruns>>

\* What the download cells read and never rebind.
inputs == <<catalog, list_datasetID, output_names, variables, dataframe_coordinates,
            reruns>>

(***************************************************************************)
(* Labelled arrays.  A dataset is [coords, data]: coords maps each         *)
(* dimension name to its coordinate sequence, data maps each variable to   *)
(* an array, a function from index assignments (dimension -> position) to  *)
(* values.                                                                 *)
(***************************************************************************)
Abs(x) == IF x < 0 THEN -x ELSE x

Dims(ds) == DOMAIN ds.coords

LongestAxis(coords) ==
    CHOOSE n \in {Len(coords[d]) : d \in DOMAIN coords} :
        \A d \in DOMAIN coords : Len(coords[d]) <= n

\* Every index assignment of an array over the axes coords.
IndexSpace(coords) ==
    { idx \in [DOMAIN coords -> 1..LongestAxis(coords)] :
        \A d \in DOMAIN coords : idx[d] <= Len(coords[d]) }

\* The physical point (dimension -> coordinate value) at an index assignment.
PointAt(coords, idx) == [d \in DOMAIN coords |-> coords[d][idx[d]]]

\* The canonical name of a dimension.
Canonical(d) == IF d = "lat" THEN "latitude" ELSE IF d = "lon" THEN "longitude" ELSE d

VarCode(v) == IF v = "uo" THEN 1 ELSE IF v = "vo" THEN 2 ELSE 3

\* The field the catalogue holds: the value of variable v of dataset id at a
\* physical point, one decimal digit per dimension (9 where the dataset has no
\* such dimension).  The coordinates of each served axis differ in their last
\* digit, so distinct datasets, variables and points have distinct values.
Field(id, v, point) ==
    LET at(d) == IF \E n \in DOMAIN point : Canonical(n) = d
                 THEN point[CHOOSE n \in DOMAIN point : Canonical(n) = d] % 10
                 ELSE 9
    IN  id * 100000 + VarCode(v) * 10000 + at("time") * 1000 + at("depth") * 100
        + at("latitude") * 10 + at("longitude")

\* copernicusmarine.open_dataset(dataset_id = id), for an id the catalogue serves.
open_dataset(id) ==
    [coords |-> catalog[id].coords,
     data   |-> [v \in catalog[id].vars |->
                    [idx \in IndexSpace(catalog[id].coords) |->
                        Field(id, v, PointAt(catalog[id].coords, idx))]]]

\* dataset.rename({old: new})
rename(ds, old, new) ==
    LET nc == [d \in (Dims(ds) \ {old}) \cup {new} |->
                  IF d = new THEN ds.coords[old] ELSE ds.coords[d]]
    IN  [coords |-> nc,
         data   |-> [v \in DOMAIN ds.data |->
                       [idx \in IndexSpace(nc) |->
                           ds.data[v][[d \in Dims(ds) |->
                                          IF d = old THEN idx[new] ELSE idx[d]]]]]]

\* The loop over dataset.coords that renames lon and lat.
RenameCoords(ds) ==
    LET a == IF "lon" \in Dims(ds) THEN rename(ds, "lon", "longitude") ELSE ds
    IN  IF "lat" \in Dims(a) THEN rename(a, "lat", "latitude") ELSE a

\* The permutation that sorts s ascending (stable): position i of the result
\* takes position SortPerm(s)[i] of s.
SortPerm(s) ==
    LET rank(j) == 1 + Cardinality({m \in 1..Len(s) :
                          s[m] < s[j] \/ (s[m] = s[j] /\ m < j)})
    IN  [i \in 1..Len(s) |-> CHOOSE j \in 1..Len(s) : rank(j) = i]

\* sortby with a slip: the coordinate is sorted, the arrays are left as stored.
sortby_CoordinateOnly(ds, dim) ==
    LET p == SortPerm(ds.coords[dim])
    IN  [coords |-> [ds.coords EXCEPT ![dim] = [i \in 1..Len(p) |-> ds.coords[dim][p[i]]]],
         data   |-> ds.data]

\* dataset.sortby(dim, ascending=True): the coordinate and every array are
\* reindexed along dim by the sorting permutation.
sortby(ds, dim) ==
    LET p == SortPerm(ds.coords[dim])
    IN  [coords |-> [ds.coords EXCEPT ![dim] = [i \in 1..Len(p) |-> ds.coords[dim][p[i]]]],
         data   |-> [v \in DOMAIN ds.data |->
                       [idx \in IndexSpace(ds.coords) |->
                           ds.data[v][[idx EXCEPT ![dim] = p[idx[dim]]]]]]]

\* (coordinates[0] >= coordinates[:-1]).all()
LooksUnsorted(coordinates) ==
    \A i \in 1..(Len(coordinates) - 1) : coordinates[1] >= coordinates[i]

sort_dimension(ds, dim_name) ==
    IF LooksUnsorted(ds.coords[dim_name]) THEN sortby(ds, dim_name) ELSE ds

(***************************************************************************)
(* Label selection: .sel(..., method="nearest") goes through pandas        *)
(* Index.get_indexer(method="nearest"), .sel(time=slice(a, b)) through     *)
(* Index.slice_indexer.  Position 0 stands for pandas' -1 (not found).     *)
(***************************************************************************)
IsIncreasing(s) == \A i \in 1..(Len(s) - 1) : s[i] <= s[i + 1]

IsDecreasing(s) == \A i \in 1..(Len(s) - 1) : s[i] >= s[i + 1]

IsMonotonic(s) == IsIncreasing(s) \/ IsDecreasing(s)

CountLE(s, q) == Cardinality({i \in 1..Len(s) : s[i] <= q})

CountLT(s, q) == Cardinality({i \in 1..Len(s) : s[i] < q})

\* get_indexer(method="pad") on a monotonic index: the position before q.
Pad(s, q) ==
    IF IsIncreasing(s) THEN CountLE(s, q)
    ELSE IF \E i \in 1..Len(s) : s[i] = q
         THEN CHOOSE i \in 1..Len(s) : s[i] = q
         ELSE Len(s) - CountLE(s, q)

\* get_indexer(method="backfill") on a monotonic index: the position after q.
Backfill(s, q) ==
    IF IsIncreasing(s)
    THEN (IF CountLT(s, q) = Len(s) THEN 0 ELSE CountLT(s, q) + 1)
    ELSE IF \E i \in 1..Len(s) : s[i] = q
         THEN CHOOSE i \in 1..Len(s) : s[i] = q
         ELSE (IF CountLT(s, q) = 0 THEN 0 ELSE Len(s) - CountLT(s, q) + 1)

\* The tie rule with a slip: the left candidate wins every tie.
LeftWins_EveryTie(s, ld, rd) == ld <= rd

\* The tie rule of _get_nearest_indexer: the left candidate wins by < on an
\* increasing index and by <= otherwise.
LeftWins(s, ld, rd) == IF IsIncreasing(s) THEN ld < rd ELSE ld <= rd

\* The lookup with a slip: the position of the first coordinate above q (of the
\* largest coordinate when there is none), whether or not q is on the index.
NearestPos_After(s, q) ==
    IF \E i \in 1..Len(s) : s[i] > q
    THEN CHOOSE i \in 1..Len(s) :
            s[i] > q /\ \A j \in 1..Len(s) : s[j] > q => s[i] <= s[j]
    ELSE CHOOSE i \in 1..Len(s) : \A j \in 1..Len(s) : s[j] <= s[i]

\* get_indexer(method="nearest") on a monotonic index.  A candidate that is
\* not found is read at position -1, the last element.
NearestPos(s, q) ==
    LET left  == Pad(s, q)
        right == Backfill(s, q)
        val(i) == IF i = 0 THEN s[Len(s)] ELSE s[i]
        ld == Abs(q - val(left))
        rd == Abs(q - val(right))
    IN  IF LeftWins(s, ld, rd) \/ right = 0 THEN left ELSE right

\* slice_indexer(start, end) on an increasing index: both ends inclusive.
SlicePos(s, start, end) == {i \in 1..Len(s) : start <= s[i] /\ s[i] <= end}

\* The positions of a set of naturals, ascending, as a sequence.
Ascending(S) ==
    [i \in 1..Cardinality(S) |->
        CHOOSE x \in S : Cardinality({y \in S : y < x}) = i - 1]

(***************************************************************************)
(* Tables.  A dataframe is [columns, rows]: rows is the sequence of its    *)
(* rows in index order, each a function from the column names to values.   *)
(* The row at position i has pandas index i-1.                             *)
(***************************************************************************)
Is3D(ds) == "depth" \in Dims(ds)

\* The labels one row of the single-date cell selects by: time and depth in
\* the first .sel, latitude and longitude in the second.
InstantLabels(ds, row) ==
    IF Is3D(ds)
    THEN [time |-> row.Date, depth |-> row.Depth,
          latitude |-> row.Latitude, longitude |-> row.Longitude]
    ELSE [time |-> row.Date, latitude |-> row.Latitude, longitude |-> row.Longitude]

\* The labels one row of the timeseries cell selects by method="nearest".
IntervalLabels(ds, row) ==
    IF Is3D(ds)
    THEN [latitude |-> row.Latitude, longitude |-> row.Longitude, depth |-> row.Depth]
    ELSE [latitude |-> row.Latitude, longitude |-> row.Longitude]

\* .sel(**labels, method="nearest") raises ValueError on an index that is
\* neither increasing nor decreasing.
CanSelect(ds, labelled) == \A d \in labelled : IsMonotonic(ds.coords[d])

\* The position matched on every labelled dimension, each on its own.
MatchedIndex(ds, labels) == [d \in DOMAIN labels |-> NearestPos(ds.coords[d], labels[d])]

\* float(dataset[var].sel(time, depth, nearest).sel(latitude, longitude, nearest))
InstantValue(ds, var, row) == ds.data[var][MatchedIndex(ds, InstantLabels(ds, row))]

\* The matched time with a slip: the last time step not after the date (the
\* first step when there is none) instead of the nearest step.
MatchedTime_Pad(ds, date) ==
    ds.coords["time"][IF Pad(ds.coords["time"], date) = 0 THEN 1
                      ELSE Pad(ds.coords["time"], date)]

\* dataset.sel(time=date, method="nearest").time.values
MatchedTime(ds, date) == ds.coords["time"][NearestPos(ds.coords["time"], date)]

\* The exception the comprehension of one variable raises, or "none": the
\* zip over the columns is built first, then each row is sampled.
ColumnError(ds, table, var) ==
    IF Is3D(ds) /\ "Depth" \notin table.columns THEN "KeyError"
    ELSE IF Len(table.rows) = 0 THEN "none"
    ELSE IF var \notin DOMAIN ds.data THEN "KeyError"
    ELSE IF ~CanSelect(ds, Dims(ds)) THEN "ValueError"
    ELSE "none"

\* The exception dataframe_final.assign(**{var: [...] for var in variables})
\* raises, or "none": the first one in the order of variables.
AssignError(ds, table, vs) ==
    IF \A i \in 1..Len(vs) : ColumnError(ds, table, vs[i]) = "none" THEN "none"
    ELSE ColumnError(ds, table, vs[CHOOSE i \in 1..Len(vs) :
                        /\ ColumnError(ds, table, vs[i]) # "none"
                        /\ \A j \in 1..(i - 1) : ColumnError(ds, table, vs[j]) = "none"])

\* The number of variables, in the order of variables, whose list was built
\* over all the rows before the assignment ended or raised.
CompletedVariables(ds, table, vs) ==
    Cardinality({i \in 1..Len(vs) :
                    \A j \in 1..i : ColumnError(ds, table, vs[j]) = "none"})

Range(f) == {f[i] : i \in DOMAIN f}

\* The assignment with a slip: every list is built from the first row.
AssignVariables_FirstRow(ds, table, vs) ==
    [columns |-> table.columns \cup Range(vs),
     rows    |-> [i \in 1..Len(table.rows) |->
                    [c \in table.columns \cup Range(vs) |->
                        IF c \in Range(vs) THEN InstantValue(ds, c, table.rows[1])
                        ELSE table.rows[i][c]]]]

\* dataframe_final.assign(**{var: [...] for var in variables})
AssignVariables(ds, table, vs) ==
    [columns |-> table.columns \cup Range(vs),
     rows    |-> [i \in 1..Len(table.rows) |->
                    [c \in table.columns \cup Range(vs) |->
                        IF c \in Range(vs) THEN InstantValue(ds, c, table.rows[i])
                        ELSE table.rows[i][c]]]]

\* dataframe_final.assign(Date_dataset = [...])
AssignDateDataset(ds, table) ==
    [columns |-> table.columns \cup {"Date_dataset"},
     rows    |-> [i \in 1..Len(table.rows) |->
                    [c \in table.columns \cup {"Date_dataset"} |->
                        IF c = "Date_dataset" THEN MatchedTime(ds, table.rows[i].Date)
                        ELSE table.rows[i][c]]]]

\* The exception the subset of one row of the timeseries cell raises, or "none".
SubsetError(ds, row, vs) ==
    IF \E i \in 1..Len(vs) : vs[i] \notin DOMAIN ds.data THEN "KeyError"
    ELSE IF ~CanSelect(ds, DOMAIN IntervalLabels(ds, row)) THEN "ValueError"
    ELSE "none"

\* dataset[variables].sel(time=slice(Start, End)).sel(latitude, longitude[, depth],
\* method="nearest").to_dataframe(): one row per time step of the slice.
Subset(ds, row, vs) ==
    LET at   == MatchedIndex(ds, IntervalLabels(ds, row))
        ts   == Ascending(SlicePos(ds.coords["time"], row.Start, row.End))
        cols == Dims(ds) \cup Range(vs)
    IN  [columns |-> cols,
         rows    |-> [i \in 1..Len(ts) |->
                        [c \in cols |->
                            IF c = "time" THEN ds.coords["time"][ts[i]]
                            ELSE IF c \in Dims(ds) THEN ds.coords[c][at[c]]
                            ELSE ds.data[c][[d \in Dims(ds) |->
                                               IF d = "time" THEN ts[i] ELSE at[d]]]]]]

\* The length of the tuples the row loop of the timeseries cell zips.
RowTupleLen(ds) == IF Is3D(ds) THEN 6 ELSE 5

\* zip with a slip: as many pairs as there are dataset ids.
ZipLen_FirstList == Len(list_datasetID)

\* What zip(list_datasetID, output_names) yields.
ZipLen == IF Len(list_datasetID) <= Len(output_names)
          THEN Len(list_datasetID) ELSE Len(output_names)

TemporalPointsFile(name) == [name |-> name, kind |-> "_temporal_points.csv", point |-> 0]

PointFile(name, index) == [name |-> name, kind |-> "point_.csv", point |-> index]

WriteFile(fs, f, table) ==
    [g \in DOMAIN fs \cup {f} |-> IF g = f THEN table ELSE fs[g]]

EmptyTable == [columns |-> {}, rows |-> <<>>]

NoDataset == [coords |-> <<>>, data |-> <<>>]

\* The records of the selections of the single-date cell for n variables over
\* rows rows: variable after variable, each over the rows in order.
SampleCalls(n, rows) ==
    [p \in 1..(n * rows) |->
        [op |-> "sample", k |-> k, row |-> ((p - 1) % rows) + 1, id |-> dataset_id]]

\* A record of the log: the call, the iteration and row it was made for, and
\* the value the global name dataset_id had when it was made.
Call(op) == [op |-> op, k |-> k, row |-> r, id |-> dataset_id]

(***************************************************************************)
(* The kernel.  A cell runs from its first line to its end or to the first *)
(* exception; the global names keep their values between cell runs.        *)
(***************************************************************************)
Raise(e) ==
    /\ error' = e
    /\ cell' = "none"
    /\ pc' = "idle"

\* Run the cell "Download temporal points".
RunInstantCell ==
    /\ cell = "none"
    /\ cell' = "instant"
    /\ pc' = "zip"
    /\ k' = 0
    /\ r' = 0
    /\ error' = "none"
    /\ calls' = <<[op |-> "instant", k |-> 0, row |-> 0, id |-> dataset_id]>>
    /\ UNCHANGED <<inputs, dataset_id, dataset, dataframe_final, files>>

\* Run the cell "Download timeseries".
RunIntervalCell ==
    /\ cell = "none"
    /\ cell' = "interval"
    /\ pc' = "zip"
    /\ k' = 0
    /\ r' = 0
    /\ error' = "none"
    /\ calls' = <<[op |-> "interval", k |-> 0, row |-> 0, id |-> dataset_id]>>
    /\ UNCHANGED <<inputs, dataset_id, dataset, dataframe_final, files>>

\* for dataset_id, output_name in zip(list_datasetID, output_names): the
\* single-date cell binds dataset_id, the timeseries cell binds datset_id.
ZipNext ==
    /\ pc = "zip"
    /\ IF k < ZipLen
       THEN /\ k' = k + 1
            /\ pc' = "open"
            /\ dataset_id' = IF cell = "instant" THEN <<list_datasetID[k + 1]>>
                             ELSE dataset_id
            /\ UNCHANGED <<cell, error>>
       ELSE /\ cell' = "none"
            /\ pc' = "idle"
            /\ UNCHANGED <<k, dataset_id, error>>
    /\ UNCHANGED <<inputs, r, dataset, dataframe_final, files, calls>>

\* dataset = copernicusmarine.open_dataset(dataset_id = dataset_id)
OpenDataset ==
    /\ pc = "open"
    /\ IF dataset_id = <<>>
       THEN Raise("NameError") /\ UNCHANGED <<dataset, calls>>
       ELSE IF dataset_id[1] \notin DOMAIN catalog
       THEN Raise("FetchError") /\ UNCHANGED <<dataset, calls>>
       ELSE /\ dataset' = open_dataset(dataset_id[1])
            /\ pc' = "rename"
            /\ calls' = Append(calls, Call("open"))
            /\ UNCHANGED <<cell, error>>
    /\ UNCHANGED <<inputs, k, r, dataset_id, dataframe_final, files>>

\* for coordinate in dataset.coords: rename lon, lat
RenameStep ==
    /\ pc = "rename"
    /\ dataset' = RenameCoords(dataset)
    /\ pc' = "sort_latitude"
    /\ calls' = Append(calls, Call("rename"))
    /\ UNCHANGED <<inputs, cell, k, r, dataset_id, dataframe_final, files, error>>

\* dataset = sort_dimension(dataset, 'latitude')
SortLatitude ==
    /\ pc = "sort_latitude"
    /\ IF "latitude" \notin Dims(dataset)
       THEN Raise("KeyError") /\ UNCHANGED <<dataset, calls>>
       ELSE /\ dataset' = sort_dimension(dataset, "latitude")
            /\ pc' = "sort_longitude"
            /\ calls' = Append(calls, Call("sort_latitude"))
            /\ UNCHANGED <<cell, error>>
    /\ UNCHANGED <<inputs, k, r, dataset_id, dataframe_final, files>>

\* dataset = sort_dimension(dataset, 'longitude')
SortLongitude ==
    /\ pc = "sort_longitude"
    /\ IF "longitude" \notin Dims(dataset)
       THEN Raise("KeyError") /\ UNCHANGED <<dataset, calls, r>>
       ELSE /\ dataset' = sort_dimension(dataset, "longitude")
            /\ pc' = IF cell = "instant" THEN "copy" ELSE "rows"
            /\ r' = 0
            /\ calls' = Append(calls, Call("sort_longitude"))
            /\ UNCHANGED <<cell, error>>
    /\ UNCHANGED <<inputs, k, dataset_id, dataframe_final, files>>

\* The copy with a slip: made by the first iteration only, later iterations
\* go on with the table of the iteration before.
CopyInput_FirstOnly ==
    /\ pc = "copy"
    /\ dataframe_final' = IF k = 1 THEN dataframe_coordinates ELSE dataframe_final
    /\ pc' = "assign_variables"
    /\ UNCHANGED <<inputs, cell, k, r, dataset_id, dataset, files, error, calls>>

\* dataframe_final = dataframe_coordinates.copy()
CopyInput ==
    /\ pc = "copy"
    /\ dataframe_final' = dataframe_coordinates
    /\ pc' = "assign_variables"
    /\ UNCHANGED <<inputs, cell, k, r, dataset_id, dataset, files, error, calls>>

\* dataframe_final = dataframe_final.assign(**{var: [...] for var in variables}),
\* the 3D or the 2D branch.  The lists are built one variable after the other,
\* each over all the rows: an exception leaves behind the selections made for
\* the variables before the one that raised.
AssignVariablesStep ==
    /\ pc = "assign_variables"
    /\ calls' = calls \o SampleCalls(CompletedVariables(dataset, dataframe_final, variables),
                                     Len(dataframe_final.rows))
    /\ IF AssignError(dataset, dataframe_final, variables) # "none"
       THEN /\ Raise(AssignError(dataset, dataframe_final, variables))
            /\ UNCHANGED dataframe_final
       ELSE /\ dataframe_final' = AssignVariables(dataset, dataframe_final, variables)
            /\ pc' = "assign_date"
            /\ UNCHANGED <<cell, error>>
    /\ UNCHANGED <<inputs, k, r, dataset_id, dataset, files>>

\* dataframe_final = dataframe_final.assign(Date_dataset = [...])
AssignDateStep ==
    /\ pc = "assign_date"
    /\ IF Len(dataframe_final.rows) > 0 /\ ~CanSelect(dataset, {"time"})
       THEN Raise("ValueError") /\ UNCHANGED dataframe_final
       ELSE /\ dataframe_final' = AssignDateDataset(dataset, dataframe_final)
            /\ pc' = "to_csv"
            /\ UNCHANGED <<cell, error>>
    /\ UNCHANGED <<inputs, k, r, dataset_id, dataset, files, calls>>

\* dataframe_final.to_csv(output_dir + output_name + "_temporal_points.csv")
ToCsv ==
    /\ pc = "to_csv"
    /\ files' = WriteFile(files, TemporalPointsFile(output_names[k]), dataframe_final)
    /\ pc' = "zip"
    /\ calls' = Append(calls, Call("to_csv"))
    /\ UNCHANGED <<inputs, cell, k, r, dataset_id, dataset, dataframe_final, error>>

\* The row loop of the timeseries cell, 3D or 2D branch: the zip over the
\* columns is built as the loop is entered; each row is subset, then written
\* under the name built from the last element of its tuple, row[5].
IntervalRow ==
    /\ pc = "rows"
    /\ IF r = 0 /\ Is3D(dataset) /\ "Depth" \notin dataframe_coordinates.columns
       THEN Raise("KeyError") /\ UNCHANGED <<r, files, calls>>
       ELSE IF r = Len(dataframe_coordinates.rows)
       THEN /\ pc' = "zip"
            /\ UNCHANGED <<cell, error, r, files, calls>>
       ELSE IF SubsetError(dataset, dataframe_coordinates.rows[r + 1], variables) # "none"
       THEN /\ Raise(SubsetError(dataset, dataframe_coordinates.rows[r + 1], variables))
            /\ UNCHANGED <<r, files, calls>>
       ELSE IF RowTupleLen(dataset) <= 5
       THEN /\ Raise("IndexError")
            /\ calls' = Append(calls, [op |-> "sample", k |-> k, row |-> r + 1, id |-> dataset_id])
            /\ UNCHANGED <<r, files>>
       ELSE /\ files' = WriteFile(files, PointFile(output_names[k], r),
                            Subset(dataset, dataframe_coordinates.rows[r + 1], variables))
            /\ r' = r + 1
            /\ calls' = calls \o <<[op |-> "sample", k |-> k, row |-> r + 1, id |-> dataset_id],
                                   [op |-> "to_csv", k |-> k, row |-> r + 1, id |-> dataset_id]>>
            /\ UNCHANGED <<cell, pc, error>>
    /\ UNCHANGED <<inputs, k, dataset_id, dataset, dataframe_final>>

(***************************************************************************)
(* Inputs.  The three specifications run the same notebook on different    *)
(* bounded input sets: batches over a small catalogue (Spec), one dataset  *)
(* with arbitrarily ordered horizontal axes (SpecNorm), one query drawn    *)
(* from a grid of coordinate values (SpecSample).  Between two runs of a   *)
(* download cell the csv may be read again and the download parameters     *)
(* bound again, to other values.                                           *)
(***************************************************************************)
AllColumns == {"Latitude", "Longitude", "Start", "End", "Depth", "Date"}

Query(lat, lon, depth, date, start, end) ==
    [Latitude |-> lat, Longitude |-> lon, Depth |-> depth,
     Date |-> date, Start |-> start, End |-> end]

\* The table read from a csv with the given columns.
Table(columns, rows) ==
    [columns |-> columns,
     rows    |-> [i \in 1..Len(rows) |-> [c \in columns |-> rows[i][c]]]]

SeqsUpTo(S, n) == UNION {[1..m -> S] : m \in 0..n}

Prefix(s, n) == [i \in 1..n |-> s[i]]

NameList == <<"current_006_004", "wave_001_027", "sst_010_021", "chl_009_037">>

TimeAxis == <<1, 3, 6>>

DepthAxis == <<0, 4>>

LatValue(i) == 36 + 4 * i

LonValue(i) == 4 * i - 2

Shape(time, depth, latName, lat, lonName, lon, vs) ==
    LET horizontal == [d \in {latName, lonName} |-> IF d = latName THEN lat ELSE lon]
    IN  [coords |-> [d \in {"time"} \cup (IF depth = <<>> THEN {} ELSE {"depth"})
                            \cup {latName, lonName} |->
                        IF d = "time" THEN time
                        ELSE IF d = "depth" THEN depth
                        ELSE horizontal[d]],
         vars   |-> vs]

\* 1: a 3D product with lat/lon names and an inverted latitude axis;
\* 2: a 2D product with an inverted longitude axis; 3: a 3D product without vo;
\* 4: a 2D product on a projected grid, whose horizontal axes are y and x.
\* Id 5 is not served.
MainCatalog ==
    <<Shape(TimeAxis, DepthAxis, "lat", <<48, 44, 40>>, "lon", <<2, 6>>, {"uo", "vo"}),
      Shape(TimeAxis, <<>>, "latitude", <<40, 44, 48>>, "longitude", <<6, 2>>, {"uo", "vo"}),
      Shape(TimeAxis, DepthAxis, "latitude", <<40, 44, 48>>, "longitude", <<2, 6>>, {"uo"}),
      Shape(TimeAxis, <<>>, "y", <<40, 44, 48>>, "x", <<2, 6>>, {"uo", "vo"})>>

DatasetIds == 1..5

MainQueries ==
    {Query(48, 6, 4, 3, 1, 6), Query(42, 9, 1, 5, 2, 3)}

\* What the download-parameters cell is edited to before it is run again.
ParameterChoices == {<<<<2>>, <<NameList[2]>>>>}

\* The tables the csv holds when the read cell is run again.
CsvChoices == {Table(AllColumns, <<Query(44, 6, 4, 3, 2, 3)>>)}

\* Run the cell that reads the csv into dataframe_coordinates again, the csv
\* having changed.
RunReadCsvCell ==
    /\ cell = "none"
    /\ reruns < MaxReruns
    /\ reruns' = reruns + 1
    /\ dataframe_coordinates' \in CsvChoices \ {dataframe_coordinates}
    /\ error' = "none"
    /\ calls' = <<[op |-> "read_csv", k |-> 0, row |-> 0, id |-> dataset_id]>>
    /\ UNCHANGED <<catalog, list_datasetID, output_names, variables,
                   cell, pc, k, r, dataset_id, dataset, dataframe_final, files>>

\* Run the cell that binds list_datasetID, output_names and variables again,
\* the lists having been edited.
RunParametersCell ==
    /\ cell = "none"
    /\ reruns < MaxReruns
    /\ reruns' = reruns + 1
    /\ \E choice \in ParameterChoices \ {<<list_datasetID, output_names>>} :
          /\ list_datasetID' = choice[1]
          /\ output_names' = choice[2]
    /\ variables' = <<"uo", "vo">>
    /\ error' = "none"
    /\ calls' = <<[op |-> "parameters", k |-> 0, row |-> 0, id |-> dataset_id]>>
    /\ UNCHANGED <<catalog, dataframe_coordinates,
                   cell, pc, k, r, dataset_id, dataset, dataframe_final, files>>

Next ==
    \/ RunInstantCell
    \/ RunIntervalCell
    \/ ZipNext
    \/ OpenDataset
    \/ RenameStep
    \/ SortLatitude
    \/ SortLongitude
    \/ CopyInput
    \/ AssignVariablesStep
    \/ AssignDateStep
    \/ ToCsv
    \/ IntervalRow
    \/ RunReadCsvCell
    \/ RunParametersCell

InitKernel ==
    /\ cell = "none"
    /\ pc = "idle"
    /\ k = 0
    /\ r = 0
    /\ dataset_id = <<>>
    /\ dataset = NoDataset
    /\ dataframe_final = EmptyTable
    /\ files = <<>>
    /\ error = "none"
    /\ calls = <<>>
    /\ reruns = 0

\* The lists of up to n different dataset ids.
IdLists(n) ==
    {s \in SeqsUpTo(DatasetIds, n) : \A i, j \in DOMAIN s : s[i] = s[j] => i = j}

Init ==
    /\ catalog = MainCatalog
    /\ list_datasetID \in IdLists(MaxDatasets)
    /\ output_names \in {Prefix(NameList, n) : n \in 0..MaxDatasets}
    /\ variables = <<"uo", "vo">>
    /\ \E rows \in SeqsUpTo(MainQueries, MaxQueries) :
       \E columns \in {AllColumns, AllColumns \ {"Depth"}} :
          dataframe_coordinates = Table(columns, rows)
    /\ InitKernel

Spec == Init /\ [][Next]_vars

\* Every order of the coordinate values S of an axis.
AxisOrders(S) ==
    {s \in [1..Cardinality(S) -> S] : \A i, j \in 1..Cardinality(S) : s[i] = s[j] => i = j}

NormShapes ==
    {Shape(TimeAxis, depth, names[1], lat, names[2], lon, {"uo", "vo"}) :
        depth \in {<<>>, DepthAxis},
        names \in {<<"lat", "lon">>, <<"latitude", "longitude">>},
        lat \in UNION {AxisOrders({LatValue(i) : i \in 1..n}) : n \in 1..MaxAxis},
        lon \in UNION {AxisOrders({LonValue(i) : i \in 1..n}) : n \in 1..(MaxAxis - 1)}}

InitNorm ==
    /\ catalog \in {<<s>> : s \in NormShapes}
    /\ list_datasetID = <<1>>
    /\ output_names = Prefix(NameList, 1)
    /\ variables = <<"uo", "vo">>
    /\ dataframe_coordinates = Table(AllColumns, <<Query(LatValue(1), LonValue(1), 4, 3, 1, 6)>>)
    /\ InitKernel

SpecNorm == InitNorm /\ [][Next]_vars

\* 1: 3D, 2: 2D, 3: 3D with a depth axis stored deepest first.
SampleCatalog ==
    <<Shape(TimeAxis, DepthAxis, "latitude", <<40, 44, 48>>, "longitude", <<2, 6>>, {"uo", "vo"}),
      Shape(TimeAxis, <<>>, "latitude", <<40, 44, 48>>, "longitude", <<2, 6>>, {"uo", "vo"}),
      Shape(TimeAxis, <<4, 0>>, "lat", <<48, 44, 40>>, "lon", <<2, 6>>, {"uo", "vo"})>>

SampleQueries ==
    {Query(lat, lon, depth, when[1], when[2], when[3]) :
        lat \in {30, 41, 42, 43, 44, 60},
        lon \in {3, 4, 6},
        depth \in {2, 4, 9},
        when \in {<<2, 1, 6>>, <<3, 2, 3>>, <<5, 7, 9>>}}

InitSample ==
    /\ catalog = SampleCatalog
    /\ list_datasetID \in {<<id>> : id \in DOMAIN SampleCatalog}
    /\ output_names = Prefix(NameList, 1)
    /\ variables = <<"uo", "vo">>
    /\ \E q \in SampleQueries :
       \E columns \in {AllColumns, AllColumns \ {"Depth"}} :
          dataframe_coordinates = Table(columns, <<q>>)
    /\ InitKernel

SpecSample == InitSample /\ [][Next]_vars

(***************************************************************************)
(* Properties.                                                             *)
(***************************************************************************)
\* The cell whose run is in progress or was the last to end.
LastCell == calls[1].op

\* The last cell run is a run of a download cell.
InDownloadRun == calls # <<>> /\ calls[1].op \in {"instant", "interval"}

RunEnded == cell = "none" /\ InDownloadRun

\* The file a to_csv call of the last cell run wrote.
FileOfCall(c) ==
    IF calls[1].op = "instant" THEN TemporalPointsFile(output_names[c.k])
    ELSE PointFile(output_names[c.k], c.row - 1)

\* The files the last cell run has written, a download cell's run.
WrittenByRun ==
    IF InDownloadRun
    THEN {FileOfCall(calls[n]) : n \in {m \in DOMAIN calls : calls[m].op = "to_csv"}}
    ELSE {}

\* The running cell has renamed and sorted the dataset of this iteration.
Normalized == pc \in {"copy", "assign_variables", "assign_date", "to_csv", "rows"}

StrictlyAscending(s) == \A i \in 1..(Len(s) - 1) : s[i] < s[i + 1]

\* The axis the catalogue serves for dataset id under canonical name d.
ServedAxis(id, d) ==
    catalog[id].coords[CHOOSE n \in DOMAIN catalog[id].coords : Canonical(n) = d]

Occurrences(s, x) == Cardinality({i \in 1..Len(s) : s[i] = x})

\* C1: after normalization (sort_dimension on latitude and on longitude) every
\* horizontal axis that was served in a non-ascending order, whatever the order,
\* is strictly ascending.
C1_NormalizedAxesAscending ==
    Normalized =>
        \A d \in {"latitude", "longitude"} :
            ~StrictlyAscending(ServedAxis(dataset_id[1], d))
                => StrictlyAscending(dataset.coords[d])

\* C2: normalization is a pure index permutation: every array holds at every
\* index the value the served field has at that index's physical point, each
\* axis keeps its coordinate values with their multiplicities, and a query at an
\* exact grid point and time step reads the field's value at that point.
C2_NormalizationIsPermutation ==
    /\ Normalized =>
          /\ DOMAIN dataset.data = catalog[dataset_id[1]].vars
          /\ \A v \in DOMAIN dataset.data :
                /\ DOMAIN dataset.data[v] = IndexSpace(dataset.coords)
                /\ \A idx \in IndexSpace(dataset.coords) :
                      dataset.data[v][idx]
                          = Field(dataset_id[1], v, PointAt(dataset.coords, idx))
          /\ \A d \in Dims(dataset) :
                /\ Len(dataset.coords[d]) = Len(ServedAxis(dataset_id[1], d))
                /\ \A x \in Range(ServedAxis(dataset_id[1], d)) :
                      Occurrences(dataset.coords[d], x)
                          = Occurrences(ServedAxis(dataset_id[1], d), x)
    /\ pc = "to_csv" =>
          \A i \in 1..Len(dataframe_final.rows) :
             LET row == dataframe_final.rows[i]
                 asked == IF Is3D(dataset)
                          THEN [time |-> row.Date, depth |-> row.Depth,
                                latitude |-> row.Latitude, longitude |-> row.Longitude]
                          ELSE [time |-> row.Date,
                                latitude |-> row.Latitude, longitude |-> row.Longitude]
             IN  (\A d \in Dims(dataset) : asked[d] \in Range(dataset.coords[d]))
                    => \A j \in 1..Len(variables) :
                          row[variables[j]] = Field(dataset_id[1], variables[j], asked)

\* C2 witness: a dataset served with a fully inverted latitude axis of three
\* values has been sorted and a query at one of its grid points answered.
C2_Witness ==
    /\ pc = "to_csv"
    /\ Len(dataset.coords["latitude"]) = 3
    /\ StrictlyAscending(dataset.coords["latitude"])
    /\ ServedAxis(dataset_id[1], "latitude")[1] > ServedAxis(dataset_id[1], "latitude")[3]
    /\ Len(dataframe_final.rows) = 1
    /\ dataframe_final.rows[1].Latitude \in Range(dataset.coords["latitude"])

\* What a field value says about where it was read: the last digit of the
\* coordinate on dimension d, and the dataset.
ValueCoordinate(d, value) ==
    IF d = "time" THEN (value \div 1000) % 10
    ELSE IF d = "depth" THEN (value \div 100) % 10
    ELSE IF d = "latitude" THEN (value \div 10) % 10
    ELSE value % 10

ValueDataset(value) == value \div 100000

\* The positions of s whose coordinate is at the least distance from q.
ClosestSet(s, q) ==
    {i \in 1..Len(s) : \A j \in 1..Len(s) : Abs(s[i] - q) <= Abs(s[j] - q)}

\* Among them, the lowest position.
ClosestLowestIndex(s, q) ==
    CHOOSE i \in ClosestSet(s, q) : \A j \in ClosestSet(s, q) : i <= j

\* Among them, the position of the larger coordinate value.
ClosestLargerValue(s, q) ==
    CHOOSE i \in ClosestSet(s, q) : \A j \in ClosestSet(s, q) : s[i] >= s[j]

\* The values a row of the input table asks for, by dimension.
Asked(row, d) ==
    IF d = "latitude" THEN row.Latitude
    ELSE IF d = "longitude" THEN row.Longitude
    ELSE IF d = "depth" THEN row.Depth
    ELSE row.Date

SpatialDims(ds) == Dims(ds) \ {"time"}

\* The closest position under a tie rule.
Closest(s, q, tie) ==
    IF tie = "lowest index" THEN ClosestLowestIndex(s, q) ELSE ClosestLargerValue(s, q)

\* Every sample the running iteration has produced sits, on every spatial
\* dimension separately, at the closest coordinate under the tie rule.
SamplesSitAt(tie) ==
    /\ pc = "to_csv" =>
          \A i \in 1..Len(dataframe_final.rows) :
          \A j \in 1..Len(variables) :
          \A d \in SpatialDims(dataset) :
             ValueCoordinate(d, dataframe_final.rows[i][variables[j]])
                = dataset.coords[d][Closest(dataset.coords[d],
                                            Asked(dataframe_final.rows[i], d), tie)] % 10
    /\ pc = "rows" =>
          \A i \in 1..r :
          \A d \in SpatialDims(dataset) :
             LET series == files[PointFile(output_names[k], i - 1)].rows
                 at == dataset.coords[d][Closest(dataset.coords[d],
                                                 Asked(dataframe_coordinates.rows[i], d), tie)]
             IN  \A n \in 1..Len(series) :
                    /\ series[n][d] = at
                    /\ \A j \in 1..Len(variables) :
                          ValueCoordinate(d, series[n][variables[j]]) = at % 10

\* C3 as stated: each of latitude, longitude and depth is matched on its own
\* at the coordinate of least absolute distance, the lower index on a tie.
C3_NearestTieLowestIndex == SamplesSitAt("lowest index")

\* C3 amended: each of latitude, longitude and depth is matched on its own at
\* the coordinate of least absolute distance, the larger coordinate value on a
\* tie (the higher index on an ascending axis).
C3_NearestTieLargerValue == SamplesSitAt("larger value")

\* C3 witness: a sample was produced for a latitude exactly midway between two
\* coordinates of an ascending latitude axis.
C3_Witness ==
    /\ pc = "to_csv"
    /\ Len(dataframe_final.rows) = 1
    /\ StrictlyAscending(dataset.coords["latitude"])
    /\ Cardinality(ClosestSet(dataset.coords["latitude"],
                              dataframe_final.rows[1].Latitude)) = 2

\* The dataset of id as the cells hold it once renamed and sorted.
NormalizedOf(id) ==
    sort_dimension(sort_dimension(RenameCoords(open_dataset(id)), "latitude"), "longitude")

Samples == {n \in DOMAIN calls : calls[n].op = "sample"}

\* C4: in the timeseries cell every query that is subset, against a 2D or a 3D
\* dataset, gets its series written, with one row per time coordinate t with
\* Start <= t <= End, in time-axis order (none when no coordinate lies in the
\* interval), and no exception.
C4_IntervalSeriesLength ==
    (calls # <<>> /\ LastCell = "interval") =>
        \A n \in Samples :
            LET row  == dataframe_coordinates.rows[calls[n].row]
                f    == PointFile(output_names[calls[n].k], calls[n].row - 1)
                time == dataset.coords["time"]
                want == Ascending({time[t] : t \in {u \in 1..Len(time) :
                                        row.Start <= time[u] /\ time[u] <= row.End}})
            IN  /\ error = "none"
                /\ f \in WrittenByRun
                /\ Len(files[f].rows) = Len(want)
                /\ \A t \in 1..Len(want) : files[f].rows[t]["time"] = want[t]

\* The served dataset id has a latitude and a longitude axis once renamed.
CanNormalize(id) ==
    {"latitude", "longitude"} \subseteq {Canonical(n) : n \in DOMAIN catalog[id].coords}

\* Sampling row i against the k-th dataset of the list raises, taken alone.
PairFails(mode, kk, i) ==
    \/ list_datasetID[kk] \notin DOMAIN catalog
    \/ ~CanNormalize(list_datasetID[kk])
    \/ LET ds  == NormalizedOf(list_datasetID[kk])
           row == dataframe_coordinates.rows[i]
       IN  IF mode = "instant"
           THEN AssignError(ds, [columns |-> dataframe_coordinates.columns,
                                 rows |-> <<row>>], variables) # "none"
           ELSE \/ Is3D(ds) /\ "Depth" \notin dataframe_coordinates.columns
                \/ SubsetError(ds, row, variables) # "none"
                \/ RowTupleLen(ds) <= 5

\* The run has written the result of sampling row i against the k-th dataset.
ResultPresent(mode, kk, i) ==
    IF mode = "instant"
    THEN /\ TemporalPointsFile(output_names[kk]) \in WrittenByRun
         /\ i <= Len(files[TemporalPointsFile(output_names[kk])].rows)
    ELSE PointFile(output_names[kk], i - 1) \in WrittenByRun

\* C5: when sampling one (dataset, query) pair raises, the run still produces
\* the result of every pair that does not fail.
C5_BatchSurvivesPairFailure ==
    (RunEnded /\ error \in {"KeyError", "ValueError", "IndexError"}) =>
        \A kk \in 1..ZipLen :
        \A i \in 1..Len(dataframe_coordinates.rows) :
            PairFails(LastCell, kk, i) \/ ResultPresent(LastCell, kk, i)

VariableColumns(table) == table.columns \cap Range(variables)

\* C6: whatever a run of either cell writes under the k-th output name was
\* sampled from the dataset of the k-th id of list_datasetID.
C6_ResultsFromKthDataset ==
    \A f \in WrittenByRun :
    \A kk \in 1..ZipLen :
        f.name = output_names[kk] =>
            \A n \in 1..Len(files[f].rows) :
            \A v \in VariableColumns(files[f]) :
                ValueDataset(files[f].rows[n][v]) = list_datasetID[kk]

\* C7: a run that samples a dataset without depth axis with a table that has a
\* Depth column ends without exception, in either cell, and leaves for every
\* sampled row the result the same row without Depth gives.
C7_DepthIgnoredOn2D ==
    (RunEnded /\ Samples # {} /\ ~Is3D(dataset)
        /\ "Depth" \in dataframe_coordinates.columns) =>
        /\ error = "none"
        /\ \A n \in Samples :
              LET full == dataframe_coordinates.rows[calls[n].row]
                  row  == [c \in DOMAIN full \ {"Depth"} |-> full[c]]
              IN  /\ ResultPresent(LastCell, calls[n].k, calls[n].row)
                  /\ IF LastCell = "instant"
                     THEN \A j \in 1..Len(variables) :
                            files[TemporalPointsFile(output_names[calls[n].k])]
                                .rows[calls[n].row][variables[j]]
                                = InstantValue(dataset, variables[j], row)
                     ELSE files[PointFile(output_names[calls[n].k], calls[n].row - 1)]
                            = Subset(dataset, row, variables)

\* The value of S nearest to q, the larger one of two equally near.
NearestValue(S, q) ==
    CHOOSE x \in S : \A y \in S \ {x} :
        Abs(x - q) < Abs(y - q) \/ (Abs(x - q) = Abs(y - q) /\ x > y)

\* The field value of dataset id at the grid point matched for a row.
ScalarAtMatch(id, v, row) ==
    Field(id, v, [d \in {Canonical(n) : n \in DOMAIN catalog[id].coords} |->
                     NearestValue(Range(ServedAxis(id, d)), Asked(row, d))])

\* The tables the last cell run has written, a run of the single-date cell.
TemporalFiles == {f \in WrittenByRun : f.kind = "_temporal_points.csv"}

\* C8: the table the single-date cell writes for a dataset has one row per row
\* of the input table, in input order and carrying the input row's columns, one
\* column per requested variable holding the scalar at the position matched for
\* that row, and a Date_dataset column.
C8_InstantTableShape ==
    \A f \in TemporalFiles :
    \A kk \in 1..ZipLen :
        f.name = output_names[kk] =>
            /\ files[f].columns
                  = dataframe_coordinates.columns \cup Range(variables) \cup {"Date_dataset"}
            /\ Len(files[f].rows) = Len(dataframe_coordinates.rows)
            /\ \A i \in 1..Len(files[f].rows) :
                  /\ \A c \in dataframe_coordinates.columns :
                        files[f].rows[i][c] = dataframe_coordinates.rows[i][c]
                  /\ \A j \in 1..Len(variables) :
                        files[f].rows[i][variables[j]]
                            = ScalarAtMatch(list_datasetID[kk], variables[j],
                                            dataframe_coordinates.rows[i])

\* C8 witness: a table was written for an input table of two different rows.
C8_Witness ==
    \E f \in TemporalFiles :
        /\ Len(files[f].rows) = 2
        /\ files[f].rows[1].Latitude # files[f].rows[2].Latitude

\* C9: in every row the single-date cell writes, Date_dataset is a time
\* coordinate of the dataset at the least distance from the row's Date, and it
\* is the time step every variable value of the row was read at.
C9_MatchedTimeIsSampledTime ==
    \A f \in TemporalFiles :
    \A kk \in 1..ZipLen :
        f.name = output_names[kk] =>
            \A i \in 1..Len(files[f].rows) :
                LET row  == files[f].rows[i]
                    time == Range(ServedAxis(list_datasetID[kk], "time"))
                IN  /\ row.Date_dataset \in time
                    /\ \A t \in time :
                          Abs(row.Date_dataset - row.Date) <= Abs(t - row.Date)
                    /\ \A j \in 1..Len(variables) :
                          ValueCoordinate("time", row[variables[j]])
                              = row.Date_dataset % 10

\* C9 witness: tables were written for a 3D and for a 2D dataset with a row
\* whose Date is a time step and a row whose Date is not.
C9_Witness ==
    \E f, g \in TemporalFiles :
        /\ "depth" \in DOMAIN catalog[list_datasetID[CHOOSE kk \in 1..ZipLen :
                                         output_names[kk] = f.name]].coords
        /\ "depth" \notin DOMAIN catalog[list_datasetID[CHOOSE kk \in 1..ZipLen :
                                         output_names[kk] = g.name]].coords
        /\ \E i, j \in 1..Len(files[g].rows) :
              /\ files[g].rows[i].Date_dataset = files[g].rows[i].Date
              /\ files[g].rows[j].Date_dataset # files[g].rows[j].Date
        /\ Len(files[f].rows) > 0

\* The grid spacing of an axis: the least distance between two coordinates.
Spacing(s) ==
    CHOOSE g \in {Abs(s[i] - s[j]) : i, j \in 1..Len(s)} \ {0} :
        \A i, j \in 1..Len(s) : i # j => g <= Abs(s[i] - s[j])

\* q lies outside the span of the axis by more than twice its grid spacing.
OutOfRange(s, q) ==
    /\ Len(s) > 1
    /\ \/ \A i \in 1..Len(s) : q < s[i] - 2 * Spacing(s)
       \/ \A i \in 1..Len(s) : q > s[i] + 2 * Spacing(s)

\* C10: no value is produced for a row whose latitude, longitude or depth lies
\* outside the dataset's axis by more than the grid spacing times the safety
\* factor (two, here).
C10_OutOfRangeRejected ==
    /\ pc = "to_csv" =>
          \A i \in 1..Len(dataframe_final.rows) :
          \A d \in SpatialDims(dataset) :
              ~OutOfRange(dataset.coords[d], Asked(dataframe_final.rows[i], d))
    /\ pc = "rows" =>
          \A i \in 1..r :
          \A d \in SpatialDims(dataset) :
              ~OutOfRange(dataset.coords[d], Asked(dataframe_coordinates.rows[i], d))

\* The running or last run has renamed and sorted the dataset it holds.
HoldsNormalized ==
    \E n \in DOMAIN calls : calls[n].op = "sort_longitude" /\ calls[n].k = k

\* No value the run has written was read from a dataset with a depth axis.
NoValueFromDepthDataset ==
    \A f \in WrittenByRun :
    \A n \in 1..Len(files[f].rows) :
    \A v \in VariableColumns(files[f]) :
        ValueCoordinate("depth", files[f].rows[n][v]) = 9

\* C11: with an input table that supplies no depth, no value is ever produced
\* from a dataset that has a depth axis, and a run of either cell that meets
\* such a dataset goes on to its end instead of stopping with an exception.
C11_MissingDepthRecoverable ==
    "Depth" \notin dataframe_coordinates.columns =>
        /\ NoValueFromDepthDataset
        /\ (RunEnded /\ HoldsNormalized /\ Is3D(dataset)) => error = "none"

\* The run was ended by opening or by normalizing the dataset of iteration k.
DatasetFailed ==
    /\ RunEnded
    /\ \/ error = "FetchError"
       \/ error = "KeyError" /\ calls[Len(calls)].op \in {"rename", "sort_latitude"}

\* C12: when a dataset cannot be opened or cannot be normalized, every later
\* dataset of the list is still opened, and (single-date cell) the result of
\* every pair of a later dataset that does not fail itself is written.
C12_DatasetFailureIsolated ==
    DatasetFailed =>
        \A kk \in (k + 1)..ZipLen :
            /\ \E n \in DOMAIN calls : calls[n].op = "open" /\ calls[n].k = kk
            /\ LastCell = "instant" =>
                  \A i \in 1..Len(dataframe_coordinates.rows) :
                      PairFails("instant", kk, i) \/ ResultPresent("instant", kk, i)

\* Every value a row asks for is a coordinate of the dataset's axis.
OnGrid(ds, row) == \A d \in Dims(ds) : Asked(row, d) \in Range(ds.coords[d])

\* The index of the grid point a row on the grid names.
ExactIndex(ds, row) ==
    [d \in Dims(ds) |->
        CHOOSE p \in 1..Len(ds.coords[d]) : ds.coords[d][p] = Asked(row, d)]

\* C13: in the single-date cell, for every row whose Date, Latitude, Longitude
\* and (dataset with a depth axis) Depth are each a coordinate of the normalized
\* dataset, every variable value sampled is the array value stored at exactly
\* that grid point, the field's value there, and the matched time is the Date.
C13_ExactGridQueryIdempotent ==
    /\ pc \in {"assign_date", "to_csv"} =>
          \A i \in 1..Len(dataframe_final.rows) :
              OnGrid(dataset, dataframe_final.rows[i]) =>
                  \A j \in 1..Len(variables) :
                      LET value == dataframe_final.rows[i][variables[j]]
                      IN  /\ value = dataset.data[variables[j]]
                                         [ExactIndex(dataset, dataframe_final.rows[i])]
                          /\ \A d \in Dims(dataset) :
                                ValueCoordinate(d, value)
                                    = Asked(dataframe_final.rows[i], d) % 10
    /\ pc = "to_csv" =>
          \A i \in 1..Len(dataframe_final.rows) :
              dataframe_final.rows[i].Date \in Range(dataset.coords["time"])
                  => dataframe_final.rows[i].Date_dataset = dataframe_final.rows[i].Date

\* C13 witness: a row on the grid of a dataset with a depth axis, at an interior
\* latitude, has been sampled.
C13_Witness ==
    /\ pc = "to_csv"
    /\ Is3D(dataset)
    /\ Len(dataframe_final.rows) = 1
    /\ OnGrid(dataset, dataframe_final.rows[1])
    /\ dataframe_final.rows[1].Latitude = dataset.coords["latitude"][2]

\* The positions in the log of the calls of one kind made by iteration kk.
CallsOf(op, kk) == {n \in DOMAIN calls : calls[n].op = op /\ calls[n].k = kk}

\* The positions in the log of the calls of one kind made on dataset id.
CallsOn(op, id) == {n \in DOMAIN calls : calls[n].op = op /\ calls[n].id = <<id>>}

\* The axis of dataset id under canonical name d as the cells hold it once
\* renamed and sorted.
NormalizedAxis(id, d) ==
    LET served == ServedAxis(id, d)
    IN  IF d \in {"latitude", "longitude"} /\ LooksUnsorted(served)
        THEN [i \in 1..Len(served) |-> served[SortPerm(served)[i]]]
        ELSE served

\* ds is the served dataset id renamed and sorted: its axes are the normalized
\* axes and every array element is the field's value at its physical point.
IsNormalizedDataset(ds, id) ==
    /\ Dims(ds) = {Canonical(n) : n \in DOMAIN catalog[id].coords}
    /\ \A d \in Dims(ds) : ds.coords[d] = NormalizedAxis(id, d)
    /\ DOMAIN ds.data = catalog[id].vars
    /\ \A v \in DOMAIN ds.data :
       \A idx \in IndexSpace(ds.coords) :
           ds.data[v][idx] = Field(id, v, PointAt(ds.coords, idx))

NormalizationCalls == <<"open", "rename", "sort_latitude", "sort_longitude">>

\* Every sample comes after the open, the rename, the sort_dimension on
\* latitude and the sort_dimension on longitude of the dataset it reads, made
\* in this order, and throughout the sampling the dataset held is the opened
\* dataset renamed and sorted.
SampledAfterNormalization ==
    /\ \A n \in Samples :
       \A c \in 1..Len(NormalizationCalls) :
          /\ calls[n].id # <<>>
          /\ \E m \in CallsOn(NormalizationCalls[c], calls[n].id[1]) : m < n
          /\ c > 1 =>
                \A l \in CallsOn(NormalizationCalls[c], calls[n].id[1]) :
                \E m \in CallsOn(NormalizationCalls[c - 1], calls[n].id[1]) :
                    /\ m < l
                    /\ calls[m].k = calls[l].k
    /\ Normalized =>
          /\ HoldsNormalized
          /\ IsNormalizedDataset(dataset, dataset_id[1])

\* No dataset is opened, renamed or sorted on an axis more than once by one
\* cell run, however many list entries and rows the run goes through.
NormalizedOncePerDataset ==
    \A id \in DatasetIds :
    \A c \in 1..Len(NormalizationCalls) :
        Cardinality(CallsOn(NormalizationCalls[c], id)) <= 1

\* C14: in a run of either cell and for every dataset, every sample of the
\* dataset comes after its renaming and its two sort_dimension calls (latitude,
\* then longitude), the normalization is made exactly once per dataset in the
\* run, and every sample reads the same normalized dataset.
C14_NormalizeOnceBeforeSampling ==
    /\ SampledAfterNormalization
    /\ NormalizedOncePerDataset

\* The length of the shorter of the two lists.
MinLen ==
    CHOOSE n \in {Len(list_datasetID), Len(output_names)} :
        n <= Len(list_datasetID) /\ n <= Len(output_names)

\* The single-date iteration over the kk-th pair raises, taken alone.
InstantIterationFails(kk) ==
    \/ list_datasetID[kk] \notin DOMAIN catalog
    \/ ~CanNormalize(list_datasetID[kk])
    \/ AssignError(NormalizedOf(list_datasetID[kk]), dataframe_coordinates, variables)
          # "none"

\* C15: ids and names are paired by position and only the first
\* min(len(list_datasetID), len(output_names)) pairs are processed: the loop
\* never goes past that position, iteration k of the single-date cell holds the
\* k-th id and every file of iteration k carries the k-th name, a run that ends
\* without exception has processed each of these pairs, nothing is written under
\* a surplus name, an exception only ever arises inside one of these iterations,
\* and a single-date run whose paired iterations all succeed ends without one.
C15_ZipTruncatesToShorterList ==
    /\ InDownloadRun => k <= MinLen
    /\ \A n \in DOMAIN calls : calls[n].k <= MinLen
    /\ (cell = "instant" /\ k >= 1) => dataset_id = <<list_datasetID[k]>>
    /\ \A n \in DOMAIN calls :
          calls[n].op = "to_csv" =>
              FileOfCall(calls[n]) \in DOMAIN files
    /\ \A f \in WrittenByRun : \E kk \in 1..MinLen : f.name = output_names[kk]
    /\ (RunEnded /\ error = "none") =>
          /\ k = MinLen
          /\ \A kk \in 1..MinLen : CallsOf("open", kk) # {}
          /\ LastCell = "instant" =>
                \A kk \in 1..MinLen :
                    TemporalPointsFile(output_names[kk]) \in WrittenByRun
    /\ (RunEnded /\ error # "none") => k >= 1
    /\ (RunEnded /\ LastCell = "instant"
            /\ \A kk \in 1..MinLen : ~InstantIterationFails(kk)) => error = "none"

\* C15 witness: a single-date run over two dataset ids and one output name has
\* ended without exception after one iteration, its table written.
C15_Witness ==
    /\ RunEnded
    /\ LastCell = "instant"
    /\ error = "none"
    /\ Len(list_datasetID) = 2
    /\ Len(output_names) = 1
    /\ k = 1
    /\ TemporalPointsFile(output_names[1]) \in WrittenByRun

\* The table of the running single-date iteration holds nothing but the input
\* table and what was sampled from the dataset of this iteration.
BuiltFromFreshCopy ==
    cell = "instant" =>
        /\ pc = "assign_variables" => dataframe_final = dataframe_coordinates
        /\ pc \in {"assign_date", "to_csv"} =>
              /\ dataframe_final.columns \subseteq
                    dataframe_coordinates.columns \cup Range(variables) \cup {"Date_dataset"}
              /\ Len(dataframe_final.rows) = Len(dataframe_coordinates.rows)
              /\ \A i \in 1..Len(dataframe_final.rows) :
                    /\ \A c \in dataframe_coordinates.columns :
                          dataframe_final.rows[i][c] = dataframe_coordinates.rows[i][c]
                    /\ \A v \in VariableColumns(dataframe_final) :
                          ValueDataset(dataframe_final.rows[i][v]) = list_datasetID[k]

\* Every table written by the single-date cell holds the input columns, the
\* variable columns and Date_dataset, with values of its own dataset only.
TablesOfOwnDataset ==
    \A f \in TemporalFiles :
    \A kk \in 1..ZipLen :
        f.name = output_names[kk] =>
            /\ files[f].columns
                  = dataframe_coordinates.columns \cup Range(variables) \cup {"Date_dataset"}
            /\ \A i \in 1..Len(files[f].rows) :
                  /\ \A c \in dataframe_coordinates.columns :
                        files[f].rows[i][c] = dataframe_coordinates.rows[i][c]
                  /\ \A j \in 1..Len(variables) :
                        /\ ValueDataset(files[f].rows[i][variables[j]]) = list_datasetID[kk]
                        /\ ValueCoordinate("time", files[f].rows[i][variables[j]])
                              = files[f].rows[i].Date_dataset % 10
                  /\ files[f].rows[i].Date_dataset
                        \in Range(ServedAxis(list_datasetID[kk], "time"))

\* C16: no step of a single-date run changes the input table
\* dataframe_coordinates; each iteration builds its table from a fresh copy of
\* it, and the table written for the k-th dataset holds only the input columns,
\* the variable columns and Date_dataset sampled from the k-th dataset.
C16_InputTableUntouched ==
    /\ [](BuiltFromFreshCopy /\ TablesOfOwnDataset)
    /\ [][cell = "instant" => dataframe_coordinates' = dataframe_coordinates]_vars

\* C16 witness: the second iteration of a single-date run over two different
\* datasets has sampled its table, the first table being written.
C16_Witness ==
    /\ cell = "instant"
    /\ pc = "to_csv"
    /\ k = 2
    /\ list_datasetID[1] # list_datasetID[2]
    /\ TemporalPointsFile(output_names[1]) \in WrittenByRun
    /\ Len(dataframe_final.rows) > 0

====
